---- MODULE Spec2Model ----
(***************************************************************************)
(* Archive/contents resolution of the JSSS corpus package.                 *)
(*                                                                         *)
(*   src/jsss/fs.py       try_to_acquire_archive_contents, save_archive    *)
(*   src/jsss/corpus.py   JSSS.get_contents, JSSS.get_identities           *)
(*   src/jsss/corpus.py   JSSS.get_item_path                               *)
(*   src/jsss/PyTorch/dataset/spectrogram.py   JSSS_spec.__init__,         *)
(*                        __getitem__, get_dataset_spec_path               *)
(*   src/jsss/PyTorch/dataset/waveform.py      get_dataset_wave_path       *)
(*                                                                         *)
(* A path (local contents path, local archive path, object at the archive  *)
(* adress) is a record [kind, data]: kind is "absent", "file" or "dir";    *)
(* data names what the file or tree holds.  An archive file holding        *)
(* Corrupt cannot be extracted; an archive file holding d \in Data         *)
(* extracts to the tree Dir(d).                                            *)
(***************************************************************************)
EXTENDS Integers, Sequences, FiniteSets, TLC

VARIABLES contents, archive, remote, last, scen, built, emptyStart, probe,
          race

vars ==
    <<contents, archive, remote, last, scen, built, emptyStart, probe, race>>

\* ------------------------------------------------------------------ bounds
\* Number of distinct extractable payloads an archive or a tree may hold.
MaxData == 2
\* Number of dataset constructions in one behaviour.
MaxBuilds == 2
\* Largest serial number looked up in the catalog.
MaxSerial == 101
\* Largest serial number whose paths are computed.
MaxPathSerial == 12
\* Longest identity list a view is indexed on.
MaxLen == 3

Data == 1..MaxData
\* Payload of an archive file that extract_archive cannot read.
Corrupt == 0

\* ------------------------------------------------------------ path states
Absent == [kind |-> "absent", data |-> 0]
File(d) == [kind |-> "file", data |-> d]
Dir(d) == [kind |-> "dir", data |-> d]

\* What a tree holds when the preprocessing loop stopped part way.
Partial == MaxData + 1

\* What a contents path can be: nothing, a plain file, or a tree.
ContentsStates == {Absent, File(0)} \cup {Dir(d) : d \in Data}
\* What an archive path or an adress can be: nothing, a directory, or a file
\* that is an extractable archive or is not.
ArchiveStates == {Absent, Dir(0)} \cup {File(d) : d \in Data \cup {Corrupt}}

\* pathlib.Path.is_file / is_dir / exists, fsspec fs.exists / fs.isfile
is_file(p) == p.kind = "file"
is_dir(p) == p.kind = "dir"
exists(p) == p.kind # "absent"

\* The outcome of a call: what it returned or raised, the paths after it, and
\* the filesystem / network operations it performed, in order.
Outcome(ret, c, a, r, ops) ==
    [ret |-> ret, c |-> c, a |-> a, r |-> r, ops |-> ops]

\* --------------------------------------------------------- extract_archive
\* torchaudio.datasets.utils.extract_archive(from_path, to_path): writes the
\* archive's tree at to_path, or raises on a file that is no archive.
extract_archive(arch, cont) ==
    IF arch.data = Corrupt
    THEN [ok |-> FALSE, contents |-> cont]
    ELSE [ok |-> TRUE, contents |-> Dir(arch.data)]

\* A bug variant of step 2: a failed extraction is swallowed and success
\* reported.
from_local_archive_swallowing(c, a, r) ==
    LET ex == extract_archive(a, c)
    IN  Outcome("True", ex.contents, a, r, <<"extract">>)

\* A bug variant of step 2: consults the adress before using the local archive.
from_local_archive_probing(c, a, r) ==
    LET ex == extract_archive(a, c)
    IN  Outcome(IF ex.ok THEN "True" ELSE "ExtractError",
                ex.contents, a, r, <<"fs.exists", "extract">>)

\* fs.py lines 39-41: the local archive exists: extract it.
from_local_archive(c, a, r) ==
    LET ex == extract_archive(a, c)
    IN  Outcome(IF ex.ok THEN "True" ELSE "ExtractError",
                ex.contents, a, r, <<"extract">>)

\* A bug variant of step 3: the download flag is not consulted.
from_adress_ignoring_download(c, a, r, dl) ==
    LET probes == <<"fs.exists", "fs.isfile">>
    IN  IF exists(r) /\ ~is_file(r)
        THEN Outcome("RuntimeError", c, a, r, probes)
        ELSE IF exists(r)
        THEN LET a2 == File(r.data)
                 ex == extract_archive(a2, c)
             IN  Outcome(IF ex.ok THEN "True" ELSE "ExtractError",
                         ex.contents, a2, r,
                         probes \o <<"mkdir", "get_file", "extract">>)
        ELSE Outcome("False", c, a, r, probes)

\* A bug variant of step 3: the fetched archive is not extracted.
from_adress_fetch_only(c, a, r, dl) ==
    LET probes == <<"fs.exists", "fs.isfile">>
    IN  IF exists(r) /\ ~is_file(r)
        THEN Outcome("RuntimeError", c, a, r, probes)
        ELSE IF exists(r) /\ dl
        THEN Outcome("True", c, File(r.data), r,
                     probes \o <<"mkdir", "get_file">>)
        ELSE Outcome("False", c, a, r, probes)

\* A bug variant of step 3: a directory at the adress is treated as a miss
\* when download is off and fetched like a file when it is on.
from_adress_no_validation(c, a, r, dl) ==
    LET probes == <<"fs.exists", "fs.isfile">>
    IN  IF exists(r) /\ dl
        THEN LET a2 == [kind |-> r.kind, data |-> r.data]
                 ex == extract_archive(a2, c)
             IN  Outcome(IF ex.ok THEN "True" ELSE "ExtractError",
                         ex.contents, a2, r,
                         probes \o <<"mkdir", "get_file", "extract">>)
        ELSE Outcome("False", c, a, r, probes)

\* A bug variant of step 3: the archive is fetched to the local archive path
\* before the download flag is consulted.
from_adress_fetch_first(c, a, r, dl) ==
    LET probes == <<"fs.exists", "fs.isfile">>
    IN  IF exists(r) /\ ~is_file(r)
        THEN Outcome("RuntimeError", c, a, r, probes)
        ELSE IF exists(r) /\ dl
        THEN LET a2 == File(r.data)
                 ex == extract_archive(a2, c)
             IN  Outcome(IF ex.ok THEN "True" ELSE "ExtractError",
                         ex.contents, a2, r,
                         probes \o <<"mkdir", "get_file", "extract">>)
        ELSE IF exists(r)
        THEN Outcome("False", c, File(r.data), r,
                     probes \o <<"mkdir", "get_file">>)
        ELSE Outcome("False", c, a, r, probes)

\* fs.py lines 43-60: an adress is given: probe it, validate it, and fetch and
\* extract it when it exists and download is granted.
from_adress(c, a, r, dl) ==
    LET probes == <<"fs.exists", "fs.isfile">>
        archiveExists == exists(r)
        archiveIsFile == is_file(r)
    IN  IF archiveExists /\ ~archiveIsFile
        THEN Outcome("RuntimeError", c, a, r, probes)
        ELSE IF archiveExists /\ dl
        THEN LET a2 == File(r.data)
                 ex == extract_archive(a2, c)
             IN  Outcome(IF ex.ok THEN "True" ELSE "ExtractError",
                         ex.contents, a2, r,
                         probes \o <<"mkdir", "get_file", "extract">>)
        ELSE Outcome("False", c, a, r, probes)

\* What the origin transfer delivers: an extractable file, a file that is not,
\* or nothing (the transfer itself fails).
TransferFails == -1
OriginDeliveries == Data \cup {Corrupt, TransferFails}

\* getGDriveLargeContents(gdrive_id, path_archive_local, file_size_GB): writes
\* the origin's file at the local archive path, or fails.
getGDriveLargeContents(a, og) ==
    IF og = TransferFails THEN [ok |-> FALSE, a |-> a]
    ELSE [ok |-> TRUE, a |-> File(og)]

\* A bug variant of the no-adress branch: a missing gdrive_id is an error even
\* when download is off.
from_gdrive_strict(c, a, r, dl, gid, og) ==
    IF ~gid
    THEN Outcome("RuntimeError", c, a, r, <<>>)
    ELSE IF dl
    THEN LET g == getGDriveLargeContents(a, og)
             ex == extract_archive(g.a, c)
         IN  IF ~g.ok
             THEN Outcome("TransferError", c, a, r, <<"gdrive">>)
             ELSE Outcome(IF ex.ok THEN "True" ELSE "ExtractError",
                          ex.contents, g.a, r, <<"gdrive", "extract">>)
    ELSE Outcome("False", c, a, r, <<>>)

\* fs.py lines 61-71: no adress: the archive comes from Google Drive when
\* download is granted.
from_gdrive(c, a, r, dl, gid, og) ==
    IF dl
    THEN IF ~gid
         THEN Outcome("RuntimeError", c, a, r, <<>>)
         ELSE LET g == getGDriveLargeContents(a, og)
                  ex == extract_archive(g.a, c)
              IN  IF ~g.ok
                  THEN Outcome("TransferError", c, a, r, <<"gdrive">>)
                  ELSE Outcome(IF ex.ok THEN "True" ELSE "ExtractError",
                               ex.contents, g.a, r, <<"gdrive", "extract">>)
    ELSE Outcome("False", c, a, r, <<>>)

\* A bug variant of the validation: the archive path's type is not checked.
validation_contents_only(c, a) ==
    IF is_file(c) THEN "contents is file" ELSE "ok"

\* fs.py lines 30-34: the validation that opens the function.
validation(c, a) ==
    IF is_file(c) THEN "contents is file"
    ELSE IF is_dir(a) THEN "archive is directory"
    ELSE "ok"

\* A bug variant of the priority: the local archive is used before the
\* existing contents are looked at.
resolve_archive_first(c, a, r, adr, dl, gid, og) ==
    IF exists(a) THEN from_local_archive(c, a, r)
    ELSE IF exists(c) THEN Outcome("True", c, a, r, <<>>)
    ELSE IF adr THEN from_adress(c, a, r, dl)
    ELSE from_gdrive(c, a, r, dl, gid, og)

\* A bug variant of the priority: without an adress and with download granted
\* the origin is fetched before the local paths are looked at.
resolve_origin_first(c, a, r, adr, dl, gid, og) ==
    IF ~adr /\ dl /\ gid
    THEN LET g == getGDriveLargeContents(a, og)
         IN  Outcome(IF g.ok THEN "True" ELSE "TransferError",
                     c, g.a, r, <<"gdrive">>)
    ELSE IF exists(c) THEN Outcome("True", c, a, r, <<>>)
    ELSE IF exists(a) THEN from_local_archive(c, a, r)
    ELSE IF adr THEN from_adress(c, a, r, dl)
    ELSE from_gdrive(c, a, r, dl, gid, og)

\* fs.py lines 36-71: the priority after validation.
resolve(c, a, r, adr, dl, gid, og) ==
    IF exists(c) THEN Outcome("True", c, a, r, <<>>)
    ELSE IF exists(a) THEN from_local_archive(c, a, r)
    ELSE IF adr THEN from_adress(c, a, r, dl)
    ELSE from_gdrive(c, a, r, dl, gid, og)

\* fs.py lines 11-71.  c, a: the local contents and archive paths; r: the
\* object at adress_archive; adr: adress_archive is given (truthy); dl:
\* download; gid: gdrive_id is not None; og: what Google Drive would deliver.
try_to_acquire_archive_contents(c, a, r, adr, dl, gid, og) ==
    IF validation(c, a) # "ok"
    THEN Outcome("RuntimeError", c, a, r, <<>>)
    ELSE resolve(c, a, r, adr, dl, gid, og)

\* ------------------------------------------------------------ save_archive
\* shutil.make_archive(base, "zip", root_dir=c): zips the tree c into the file
\* base + ".zip".  With zipname (the local archive path has the suffix .zip)
\* that file is the local archive path a; otherwise it is a sibling of a and
\* a is left as it was.
make_archive(c, a, zipname) ==
    IF ~is_dir(c) THEN [ok |-> FALSE, a |-> a]
    ELSE IF ~zipname THEN [ok |-> TRUE, a |-> a]
    ELSE IF is_dir(a) THEN [ok |-> FALSE, a |-> a]
    ELSE [ok |-> TRUE, a |-> File(c.data)]

\* A bug variant of packaging: an archive file already at the local archive
\* path is kept instead of being rewritten.
save_archive_keeping(c, a, r, zipname) ==
    LET m == IF is_file(a) /\ is_dir(c) THEN [ok |-> TRUE, a |-> a]
             ELSE make_archive(c, a, zipname)
    IN  IF ~m.ok THEN Outcome("MakeArchiveError", c, a, r, <<"make_archive">>)
        ELSE IF ~is_file(m.a)
        THEN Outcome("OSError", c, m.a, r, <<"make_archive", "open">>)
        ELSE IF is_dir(r)
        THEN Outcome("OSError", c, m.a, r, <<"make_archive", "open", "upload">>)
        ELSE Outcome("None", c, m.a, File(m.a.data),
                     <<"make_archive", "open", "upload">>)

\* fs.py lines 74-89: package the tree, then read the file at the local
\* archive path and write it at the adress.
save_archive(c, a, r, zipname) ==
    LET m == make_archive(c, a, zipname)
    IN  IF ~m.ok THEN Outcome("MakeArchiveError", c, a, r, <<"make_archive">>)
        ELSE IF ~is_file(m.a)
        THEN Outcome("OSError", c, m.a, r, <<"make_archive", "open">>)
        ELSE IF is_dir(r)
        THEN Outcome("OSError", c, m.a, r, <<"make_archive", "open", "upload">>)
        ELSE Outcome("None", c, m.a, File(m.a.data),
                     <<"make_archive", "open", "upload">>)

\* -------------------------------------------------------- JSSS.get_contents
\* fs.py lines 11-14: the parameters of try_to_acquire_archive_contents that
\* have no default (path_contents_local, path_archive_local, adress_archive).
RequiredPositional == 3
\* corpus.py lines 94 and 98: the arguments get_contents passes
\* (self._adress, self._path_contents_local).
GetContentsArgs == 2

\* The call of corpus.py lines 94 and 98, `try_to_acquire_archive_contents(
\* self._adress, self._path_contents_local)`, on the function corpus.py line 7
\* imports from fs.py.  Python binds the arguments before the body runs: a
\* call that leaves a parameter without default unbound raises TypeError.
\* Were the call bound, its first parameter (path_contents_local) would be the
\* adress and its second (path_archive_local) the contents path.
call_from_get_contents(c, r) ==
    IF GetContentsArgs < RequiredPositional
    THEN [ret |-> "TypeError", c |-> c, r |-> r, ops |-> <<>>]
    ELSE LET o == try_to_acquire_archive_contents(r, c, Absent, FALSE, FALSE, FALSE, Corrupt)
         IN  [ret |-> o.ret, c |-> o.a, r |-> o.c, ops |-> o.ops]

\* forward_file_from_GDrive(gdrive_contents_id, adress, size): writes the
\* origin's file at the adress, or fails.
forward_file_from_GDrive(r, og) ==
    IF og = TransferFails THEN [ok |-> FALSE, r |-> r]
    ELSE [ok |-> TRUE, r |-> File(og)]

\* The outcome of get_contents: ret is "None" on a normal return.
GC(ret, c, r, ops, fetches, attempts) ==
    [ret |-> ret, c |-> c, r |-> r, ops |-> ops,
     fetches |-> fetches, attempts |-> attempts]

\* corpus.py lines 90-104.  c: the corpus contents path; r: the object at
\* self._adress; dlo: self._download_origin; og: what the origin delivers.
get_contents(c, r, dlo, og) ==
    LET first == call_from_get_contents(c, r)
    IN  IF first.ret \notin {"True", "False"}
        THEN GC(first.ret, first.c, first.r, first.ops, 0, 1)
        ELSE IF first.ret = "True"
        THEN GC("None", first.c, first.r, first.ops, 0, 1)
        ELSE IF dlo
        THEN LET f == forward_file_from_GDrive(first.r, og)
                 retry == call_from_get_contents(first.c, f.r)
                 ops == first.ops \o <<"forward">> \o retry.ops
             IN  IF ~f.ok
                 THEN GC("TransferError", first.c, first.r,
                         first.ops \o <<"forward">>, 1, 1)
                 ELSE IF retry.ret \notin {"True", "False"}
                 THEN GC(retry.ret, retry.c, retry.r, ops, 1, 2)
                 ELSE IF retry.ret = "False"
                 THEN GC("RuntimeError", retry.c, retry.r, ops, 1, 2)
                 ELSE GC("None", retry.c, retry.r, ops, 1, 2)
        ELSE GC("RuntimeError", first.c, first.r, first.ops, 0, 1)

\* ------------------------------------------------------ JSSS_spec.__init__
\* corpus.py lines 23-32
modes ==
    <<"short-form/basic5000", "short-form/onomatopee300",
      "short-form/voiceactress100", "long-form/katsura-masakazu",
      "long-form/udon", "long-form/washington-dc",
      "simplification", "summarization">>

\* corpus.py lines 113-122: range(1, stop) per mode, in the order of modes.
divs_stop == <<3001, 186, 101, 60, 87, 24, 228, 227>>

\* corpus.py lines 35-37: the fields of the NamedTuple ItemIdJSSS.
ItemIdJSSS_fields == {"mode", "serial_num"}

RECURSIVE count_identities(_)
\* corpus.py lines 123-127: the length of the list get_identities returns.
count_identities(i) ==
    IF i = 0 THEN 0 ELSE (divs_stop[i] - 1) + count_identities(i - 1)

\* A bug variant of the range: the last serial of the subtype is left out.
divs_short(i) == [n \in 1..(divs_stop[i] - 2) |-> n]

\* corpus.py lines 113-122: divs[modes[i]] = range(1, stop), as a list.
divs(i) == [n \in 1..(divs_stop[i] - 1) |-> n]

\* corpus.py lines 123-126: the list the two loops build, over the first i
\* modes.
RECURSIVE identities_upto(_)
identities_upto(i) ==
    IF i = 0 THEN <<>>
    ELSE identities_upto(i - 1)
         \o [k \in 1..Len(divs(i)) |->
                [mode |-> modes[i], serial_num |-> divs(i)[k]]]

\* corpus.py lines 106-127: JSSS.get_identities()
get_identities == identities_upto(Len(modes))

\* How many times the identity (mode, serial_num) is in the catalog.
occurrences(mode, serial_num) ==
    Cardinality({k \in 1..Len(get_identities) :
                    get_identities[k] = [mode |-> mode, serial_num |-> serial_num]})

\* spectrogram.py line 95 (waveform.py line 95): `filter(lambda id: id.subtype
\* in subtypes, self._corpus.get_identities())` made a list.  The lambda reads
\* the attribute `subtype` of an ItemIdJSSS; on a non-empty list the first
\* item raises AttributeError when the tuple has no such field.
filter_identities(subtypes) ==
    IF count_identities(Len(modes)) > 0 /\ "subtype" \notin ItemIdJSSS_fields
    THEN "AttributeError"
    ELSE "ok"

\* ------------------------------------------------------------------- paths
\* str(n) for n >= 0: the decimal digits, most significant first.
RECURSIVE str(_)
str(n) == IF n < 10 THEN <<n>> ELSE Append(str(n \div 10), n % 10)

\* str.zfill(width): zeros on the left up to width, longer strings unchanged.
RECURSIVE zfill(_, _)
zfill(digits, width) ==
    IF Len(digits) >= width THEN digits ELSE zfill(<<0>> \o digits, width)

\* corpus.py lines 138-171: name[mode]["prefix"] and name[mode]["zpad"], by
\* the position of the mode in modes.
name_prefix ==
    <<"BASIC5000", "ONOMATOPEE300", "VOICEACTRESS100", "KATSURA-MASAKAZU",
      "UDON", "WASHINGTON-DC", "SIMPLIFICATION", "SUMMARIZATION">>
name_zpad == <<4, 3, 3, 2, 2, 2, 3, 3>>
mode_index(mode) == CHOOSE i \in 1..Len(modes) : modes[i] = mode

\* corpus.py lines 129-176: JSSS.get_item_path(id), as the directories and
\* the pieces of the file name.
get_item_path(id) ==
    [ret |-> "ok",
     dirs |-> <<"root", "jsss_ver", id.mode, "wav24kHz16bit">>,
     name |-> <<name_prefix[mode_index(id.mode)], "_">>
              \o zfill(str(id.serial_num), name_zpad[mode_index(id.mode)])
              \o <<".wav">>,
     num |-> zfill(str(id.serial_num), name_zpad[mode_index(id.mode)])]

\* waveform.py lines 22-23: dir_dataset / id.subtype / "waves" /
\* f"{id.serial_num}.wave.pt".  Reading id.subtype raises AttributeError on a
\* tuple without that field.
get_dataset_wave_path(id) ==
    IF "subtype" \notin DOMAIN id
    THEN [ret |-> "AttributeError", dirs |-> <<>>, name |-> <<>>, num |-> <<>>]
    ELSE [ret |-> "ok",
          dirs |-> <<"dir_dataset", id.subtype, "waves">>,
          name |-> str(id.serial_num) \o <<".wave.pt">>,
          num |-> str(id.serial_num)]

\* spectrogram.py lines 15-16: dir_dataset / id.subtype / "specs" /
\* f"{id.serial_num}.spec.pt"
get_dataset_spec_path(id) ==
    IF "subtype" \notin DOMAIN id
    THEN [ret |-> "AttributeError", dirs |-> <<>>, name |-> <<>>, num |-> <<>>]
    ELSE [ret |-> "ok",
          dirs |-> <<"dir_dataset", id.subtype, "specs">>,
          name |-> str(id.serial_num) \o <<".spec.pt">>,
          num |-> str(id.serial_num)]

\* corpus.py lines 35-37: ItemIdJSSS(mode, serial_num)
ItemIdJSSS(mode, serial_num) == [mode |-> mode, serial_num |-> serial_num]

\* spectrogram.py lines 117-125: _load_datum(id) computes the spectrogram
\* path first, then loads the tensors the mode flag asks for.
load_datum(id, train) ==
    IF get_dataset_spec_path(id).ret # "ok"
    THEN [ret |-> get_dataset_spec_path(id).ret, id |-> id, fields |-> {}]
    ELSE IF train
    THEN [ret |-> "datum", id |-> id, fields |-> {"spectrogram", "label"}]
    ELSE IF get_dataset_wave_path(id).ret # "ok"
    THEN [ret |-> get_dataset_wave_path(id).ret, id |-> id, fields |-> {}]
    ELSE [ret |-> "datum", id |-> id,
          fields |-> {"waveform", "spectrogram", "label"}]

\* spectrogram.py lines 127-132: __getitem__(n) = _load_datum(self._ids[n]).
\* A Python list takes n from -len to len-1, a negative n counting from the
\* end, and raises IndexError for any other n.
getitem(ids, n, train) ==
    IF n >= Len(ids) \/ n < -Len(ids)
    THEN [ret |-> "IndexError", id |-> <<>>, fields |-> {}]
    ELSE IF n >= 0 THEN load_datum(ids[n + 1], train)
    ELSE load_datum(ids[Len(ids) + n + 1], train)

\* spectrogram.py line 95: the list assigned to self._ids when the filter
\* completes; nothing is assigned when it raises.
filtered_ids(subtypes) ==
    LET selected(id) == \E k \in 1..Len(subtypes) : subtypes[k] = id.subtype
    IN  IF filter_identities(subtypes) # "ok" THEN <<>>
        ELSE SelectSeq(get_identities, selected)

\* spectrogram.py lines 97-116 as they would run past line 95: resolution by
\* the archive helper (steps 1 and 3 of the resolution protocol, the adress
\* being the archive), and on a miss corpus acquisition, the preprocessing
\* loop writing tree p, and save_archive writing the archive at the adress.
\* gret: the outcome of self._corpus.get_contents() (spectrogram.py line 110).
\* fails: an item after the first cannot be preprocessed (load_wav raises),
\* which ends the loop of lines 112-115 with the earlier items written.
deploy_dataset_contents(c, a, r, p, gret, fails) ==
    IF is_file(c) THEN Outcome("RuntimeError", c, a, r, <<>>)
    ELSE IF exists(c) THEN Outcome("hit", c, a, r, <<>>)
    ELSE IF exists(r) /\ ~is_file(r)
    THEN Outcome("RuntimeError", c, a, r, <<"fs.exists", "fs.isfile">>)
    ELSE IF exists(r)
    THEN LET ex == extract_archive(r, c)
         IN  Outcome(IF ex.ok THEN "fetched" ELSE "ExtractError", ex.contents,
                     a, r, <<"fs.exists", "fs.isfile", "fetch", "extract">>)
    ELSE IF gret # "None"
             THEN Outcome(gret, c, a, r,
                          <<"fs.exists", "fs.isfile", "get_contents">>)
    ELSE IF fails
             THEN Outcome("PreprocessError", Dir(Partial), a, r,
                          <<"fs.exists", "fs.isfile", "get_contents",
                            "preprocess">>)
             ELSE Outcome("generated", Dir(p), a, File(p),
                          <<"fs.exists", "fs.isfile", "get_contents",
                            "preprocess", "make_archive", "publish">>)

\* spectrogram.py lines 51-104.  p names the tree the parameters generate.
JSSS_spec_init(c, a, r, subtypes, p, gret, fails) ==
    IF filter_identities(subtypes) # "ok"
    THEN Outcome(filter_identities(subtypes), c, a, r, <<>>)
    ELSE deploy_dataset_contents(c, a, r, p, gret, fails)

\* The generation parameters of a construction: the selected subtypes, in the
\* order they are passed, and the resample rate (0: None).
SubtypeChoices ==
    {<<"short-form/basic5000">>, <<"long-form/udon">>,
     <<"short-form/basic5000", "long-form/udon">>,
     <<"long-form/udon", "short-form/basic5000">>}
Params == [subtypes : SubtypeChoices, resample_sr : {0, 16000}]
\* speechcorpusy's hash_args(subtypes, resample_sr), called at spectrogram.py
\* line 88: a digest of the ordered argument tuple, equal for equal tuples
\* and different for different ones.
hash_args(subtypes, resample_sr) == <<subtypes, resample_sr>>

\* A bug variant of the contents path: one directory for every key.
path_contents_local_shared(arg_hash) == <<"tmp", "JSSS_spec", "contents">>

\* spectrogram.py lines 89-90: Path(".")/"tmp"/"JSSS_spec"/"contents"/arg_hash
path_contents_local(arg_hash) == <<"tmp", "JSSS_spec", "contents", arg_hash>>
\* spectrogram.py line 92: the file name in f"{dataset_dir_adress}/{arg_hash}.zip"
dataset_archive_name(arg_hash) == <<arg_hash, ".zip">>

\* The tree a parameter tuple generates.
TreeOf(p) == IF p.subtypes = <<"short-form/basic5000">> THEN 1 ELSE MaxData

\* The statements of JSSS_spec.__init__ that read or write what two
\* processes share, one at a time: the filter of line 95, the resolution of
\* line 98, corpus acquisition (line 110), the preprocessing loop (lines
\* 112-115) and save_archive (line 103).  The result names the statement the
\* process is at next, or how the construction ended.
RunningStages == {"line95", "line98", "line110", "line112", "line103"}
ctor_step(stage, c, r, p, gret) ==
    LET at(st, c2, r2, missed, wrote) ==
            [stage |-> st, c |-> c2, r |-> r2, missed |-> missed,
             wrote |-> wrote]
    IN  IF stage = "line95"
        THEN at(IF filter_identities(p.subtypes) = "ok" THEN "line98"
                ELSE filter_identities(p.subtypes), c, r, FALSE, FALSE)
        ELSE IF stage = "line98"
        THEN IF is_file(c) THEN at("RuntimeError", c, r, FALSE, FALSE)
             ELSE IF exists(c) THEN at("hit", c, r, FALSE, FALSE)
             ELSE IF exists(r) /\ ~is_file(r)
             THEN at("RuntimeError", c, r, FALSE, FALSE)
             ELSE IF exists(r)
             THEN at(IF extract_archive(r, c).ok THEN "fetched"
                     ELSE "ExtractError",
                     extract_archive(r, c).contents, r, FALSE, FALSE)
             ELSE at("line110", c, r, TRUE, FALSE)
        ELSE IF stage = "line110"
        THEN at(IF gret = "None" THEN "line112" ELSE gret, c, r, FALSE, FALSE)
        ELSE IF stage = "line112"
        THEN at("line103", Dir(TreeOf(p)), r, FALSE, FALSE)
        ELSE at("generated", c, File(c.data), FALSE, TRUE)

\* ------------------------------------------------------------------ state
\* The record of the operation performed last: pre is the paths before it,
\* ret what it returned or raised, ops what it did, scen4 whether it was called
\* right after a successful download and the removal of both local copies,
\* saved the tree a save_archive call just packaged (0: none), rt whether the
\* call came right after packaging a tree and deleting it.
NoOp ==
    [op |-> "none", pre |-> [c |-> Absent, a |-> Absent, r |-> Absent],
     adr |-> FALSE, dl |-> FALSE, gid |-> FALSE, og |-> Corrupt,
     ret |-> "none", ops |-> <<>>, scen4 |-> FALSE,
     fetches |-> 0, attempts |-> 0, zipname |-> FALSE, saved |-> 0,
     rt |-> FALSE]

Pre == [c |-> contents, a |-> archive, r |-> remote]

\* The record of the last look-up of the catalog, of a path or of a datum.
NoProbe == [op |-> "none"]

\* Two processes constructing the same dataset: the statement each is at, the
\* parameters they share, whether each saw the resolution miss, and which of
\* them wrote the archive last (0: none).
Procs == {1, 2}
NoRace ==
    [stage |-> <<"line95", "line95">>, p |-> CHOOSE p \in Params : TRUE,
     missed |-> <<FALSE, FALSE>>, writer |-> 0]

Init ==
    /\ contents \in ContentsStates
    /\ archive \in ArchiveStates
    /\ remote \in ArchiveStates
    /\ last = NoOp
    /\ scen = 0
    /\ built = <<>>
    /\ emptyStart = (contents = Absent /\ archive = Absent /\ remote = Absent)
    /\ probe = NoProbe
    /\ race = NoRace

\* One call of try_to_acquire_archive_contents on the three paths.
TryToAcquire ==
    \E adr \in BOOLEAN, dl \in BOOLEAN, gid \in BOOLEAN, og \in OriginDeliveries :
        \* og is only read on the Google Drive branch
        /\ (adr \/ ~dl \/ ~gid) => og = Corrupt
        /\ LET o == try_to_acquire_archive_contents(
                        contents, archive, remote, adr, dl, gid, og)
           IN  /\ contents' = o.c
               /\ archive' = o.a
               /\ remote' = o.r
               /\ last' = [NoOp EXCEPT !.op = "try", !.pre = Pre,
                              !.adr = adr, !.dl = dl, !.gid = gid, !.og = og,
                              !.ret = o.ret, !.ops = o.ops,
                              !.scen4 = (scen = 2),
                              !.attempts = 1,
                              !.rt = (last.op = "rm_contents" /\ last.saved # 0),
                              !.saved = IF last.op = "rm_contents"
                                        THEN last.saved ELSE 0]
               /\ scen' = IF adr /\ dl /\ o.ret = "True" /\ o.a # archive
                          THEN 1 ELSE 0
        /\ UNCHANGED <<built, emptyStart, probe, race>>

\* One call of JSSS.get_contents: contents is the corpus contents path and
\* remote the object at the corpus adress.
GetContents ==
    \E dlo \in BOOLEAN, og \in OriginDeliveries :
        /\ ~dlo => og = Corrupt
        /\ LET g == get_contents(contents, remote, dlo, og)
           IN  /\ contents' = g.c
               /\ remote' = g.r
               /\ last' = [NoOp EXCEPT !.op = "get_contents", !.pre = Pre,
                              !.adr = TRUE, !.dl = dlo, !.og = og,
                              !.ret = g.ret, !.ops = g.ops,
                              !.fetches = g.fetches, !.attempts = g.attempts]
        /\ scen' = 0
        /\ UNCHANGED <<archive, built, emptyStart, probe, race>>

\* One construction of the dataset, JSSS_spec(...), with parameters p; the
\* three paths are the dataset's, the corpus has nothing local and nothing at
\* its adress.
Construct ==
    \E p \in Params, dlo \in BOOLEAN, fails \in BOOLEAN :
        /\ Len(built) < MaxBuilds
        /\ LET g == get_contents(Absent, Absent, dlo, Corrupt)
               o == JSSS_spec_init(contents, archive, remote, p.subtypes,
                                   TreeOf(p), g.ret, fails)
           IN  /\ contents' = o.c
               /\ archive' = o.a
               /\ remote' = o.r
               /\ built' = Append(built,
                      [p |-> p, fails |-> fails, ret |-> o.ret, ops |-> o.ops,
                       ids |-> [set |-> filter_identities(p.subtypes) = "ok",
                                seq |-> filtered_ids(p.subtypes)],
                       path |-> path_contents_local(
                                    hash_args(p.subtypes, p.resample_sr)),
                       zip |-> dataset_archive_name(
                                    hash_args(p.subtypes, p.resample_sr))])
               /\ last' = [NoOp EXCEPT !.op = "construct", !.pre = Pre,
                              !.ret = o.ret, !.ops = o.ops]
        /\ scen' = 0
        /\ UNCHANGED <<emptyStart, probe, race>>

\* The environment deletes the local contents tree and the local archive.
RemoveLocalCopies ==
    /\ exists(contents) \/ exists(archive)
    /\ contents' = Absent
    /\ archive' = Absent
    /\ last' = [NoOp EXCEPT !.op = "rm", !.pre = Pre]
    /\ scen' = IF scen = 1 THEN 2 ELSE 0
    /\ UNCHANGED <<remote, built, emptyStart, probe, race>>

\* One call of save_archive on the three paths.
SaveArchive ==
    \E zipname \in BOOLEAN :
        LET o == save_archive(contents, archive, remote, zipname)
        IN  /\ contents' = o.c
            /\ archive' = o.a
            /\ remote' = o.r
            /\ last' = [NoOp EXCEPT !.op = "save", !.pre = Pre,
                           !.ret = o.ret, !.ops = o.ops, !.zipname = zipname,
                           !.saved = IF o.ret = "None" /\ zipname
                                     THEN contents.data ELSE 0]
            /\ scen' = 0
            /\ UNCHANGED <<built, emptyStart, probe, race>>

\* The environment deletes the local contents tree.
RemoveContents ==
    /\ is_dir(contents)
    /\ contents' = Absent
    /\ last' = [NoOp EXCEPT !.op = "rm_contents", !.pre = Pre,
                   !.saved = IF last.op = "save" THEN last.saved ELSE 0]
    /\ scen' = 0
    /\ UNCHANGED <<archive, remote, built, emptyStart, probe, race>>

\* Calls of the resolution function, of the corpus handler and of
\* save_archive, in any order, on any initial state of the three paths.
Next ==
    \/ TryToAcquire
    \/ GetContents
    \/ RemoveLocalCopies
    \/ SaveArchive
    \/ RemoveContents

Spec == Init /\ [][Next]_vars

\* One look-up of the catalog from the initial state: is the identity
\* (modes[m], serial_num) in the list get_identities() returns, and how long
\* is the list.
ProbeIdentity ==
    \E m \in 1..Len(modes), serial_num \in 0..MaxSerial :
        /\ probe = NoProbe
        /\ probe' = [op |-> "identity", m |-> m, serial_num |-> serial_num,
                      count |-> occurrences(modes[m], serial_num),
                      len |-> Len(get_identities)]
        /\ UNCHANGED <<contents, archive, remote, last, scen, built, emptyStart,
                     race>>

\* The three paths of two identities of the catalog.
ProbePaths ==
    \E m1 \in 1..Len(modes), m2 \in 1..Len(modes),
       s1 \in 1..MaxPathSerial, s2 \in 1..MaxPathSerial :
        LET id1 == ItemIdJSSS(modes[m1], s1)
            id2 == ItemIdJSSS(modes[m2], s2)
        IN  /\ probe = NoProbe
            /\ probe' = [op |-> "paths", id1 |-> id1, id2 |-> id2,
                          raw1 |-> get_item_path(id1),
                          raw2 |-> get_item_path(id2),
                          wave1 |-> get_dataset_wave_path(id1),
                          wave2 |-> get_dataset_wave_path(id2),
                          spec1 |-> get_dataset_spec_path(id1),
                          spec2 |-> get_dataset_spec_path(id2)]
            /\ UNCHANGED <<contents, archive, remote, last, scen, built,
                           emptyStart, race>>

\* One __getitem__(n) on a view whose identity list is the first len
\* identities of the catalog.
ProbeGetItem ==
    \E len \in 0..MaxLen, n \in (-MaxLen - 1)..(MaxLen + 1), train \in BOOLEAN :
        LET ids == SubSeq(get_identities, 1, len)
        IN  /\ probe = NoProbe
            /\ probe' = [op |-> "getitem", ids |-> ids, n |-> n,
                          train |-> train, out |-> getitem(ids, n, train),
                          ids_after |-> ids]
            /\ UNCHANGED <<contents, archive, remote, last, scen, built,
                           emptyStart, race>>

\* Look-ups of the catalog, of item paths and of dataset items.
NextViews ==
    \/ ProbeIdentity
    \/ ProbePaths
    \/ ProbeGetItem

\* The look-ups read no path: they start from the empty environment.
InitViews ==
    /\ contents = Absent
    /\ archive = Absent
    /\ remote = Absent
    /\ last = NoOp
    /\ scen = 0
    /\ built = <<>>
    /\ emptyStart = TRUE
    /\ probe = NoProbe
    /\ race = NoRace

SpecViews == InitViews /\ [][NextViews]_vars

\* One statement of one of the two constructing processes.
RaceStep ==
    \E i \in Procs, dlo \in BOOLEAN :
        /\ race.stage[i] \in RunningStages
        /\ LET g == get_contents(Absent, Absent, dlo, Corrupt)
               o == ctor_step(race.stage[i], contents, remote, race.p, g.ret)
           IN  /\ contents' = o.c
               /\ remote' = o.r
               /\ race' = [race EXCEPT !.stage[i] = o.stage,
                                       !.missed[i] = @ \/ o.missed,
                                       !.writer = IF o.wrote THEN i ELSE @]
        /\ UNCHANGED <<archive, last, scen, built, emptyStart, probe>>

\* Two processes start constructing the dataset of the same parameters, on
\* any initial state of the paths.
InitRace ==
    /\ contents \in ContentsStates
    /\ archive \in ArchiveStates
    /\ remote \in ArchiveStates
    /\ last = NoOp
    /\ scen = 0
    /\ built = <<>>
    /\ emptyStart = (contents = Absent /\ archive = Absent /\ remote = Absent)
    /\ probe = NoProbe
    /\ \E p \in Params : race = [NoRace EXCEPT !.p = p]

NextRace == RaceStep

SpecRace == InitRace /\ [][NextRace]_vars

\* Dataset constructions, one after the other, on any initial state.
NextDataset == Construct

SpecDataset == Init /\ [][NextDataset]_vars

\* ------------------------------------------------------------ abbreviations
Tried == last.op = "try"
Unchanged == contents = last.pre.c /\ archive = last.pre.a /\ remote = last.pre.r
Has(ops, x) == \E i \in 1..Len(ops) : ops[i] = x
NetworkOps == {"fs.exists", "fs.isfile", "get_file", "gdrive", "forward"}
NoNetwork(ops) == \A i \in 1..Len(ops) : ops[i] \notin NetworkOps
Raised(ret) == ret \in {"RuntimeError", "ExtractError", "TransferError",
                        "TypeError", "AttributeError"}

\* ---------------------------------------------------------------------- C1
\* C1: whenever try_to_acquire_archive_contents returns True the contents path
\* is a directory at return, and whenever get_contents returns normally the
\* contents path is a directory; every other outcome is a False return or a
\* raised error.
C1_SuccessMeansContents ==
    /\ (Tried /\ last.ret = "True") => is_dir(contents)
    /\ (Tried /\ last.ret # "True") => (last.ret = "False" \/ Raised(last.ret))
    /\ (last.op = "get_contents" /\ last.ret = "None") => is_dir(contents)
    /\ (last.op = "get_contents" /\ last.ret # "None") => Raised(last.ret)

\* A call that returned True having created the tree itself.
C1_Witness ==
    Tried /\ last.ret = "True" /\ ~exists(last.pre.c) /\ is_dir(contents)

\* ---------------------------------------------------------------------- C2
\* C2 as stated: if the contents path is a directory, resolution returns
\* success with no further work, whatever the local archive path, the adress
\* and the download flag are.
C2_Original ==
    (Tried /\ is_dir(last.pre.c))
        => (last.ret = "True" /\ last.ops = <<>> /\ Unchanged)

\* C2 amended: if the contents path is a directory and the local archive path
\* is not a directory, resolution returns success with no further work; if the
\* local archive path is a directory the opening validation raises first, also
\* with no further work.
C2_ShortCircuit ==
    /\ (Tried /\ is_dir(last.pre.c) /\ ~is_dir(last.pre.a))
           => (last.ret = "True" /\ last.ops = <<>> /\ Unchanged)
    /\ (Tried /\ is_dir(last.pre.c) /\ is_dir(last.pre.a))
           => (last.ret = "RuntimeError" /\ last.ops = <<>> /\ Unchanged)

\* Contents present beside a local archive file and a remote file, download on.
C2_Witness ==
    /\ Tried /\ is_dir(last.pre.c) /\ is_file(last.pre.a) /\ is_file(last.pre.r)
    /\ last.adr /\ last.dl /\ last.ret = "True"

\* ---------------------------------------------------------------------- C3
\* C3: starting from an empty environment, after a first dataset construction,
\* a second construction with identical parameters resolves at step 1 and does
\* no probe, fetch, corpus acquisition, preprocessing, packaging or publish.
C3_SecondConstructionHits ==
    (emptyStart /\ Len(built) >= 2 /\ built[1].p = built[2].p)
        => (built[2].ret = "hit" /\ built[2].ops = <<>>)

\* ---------------------------------------------------------------------- C4
\* C4 as stated: contents absent and a file at the local archive path:
\* resolution extracts it, returns success, and makes no network call.
C4_Original ==
    (Tried /\ ~exists(last.pre.c) /\ is_file(last.pre.a))
        => (last.ret = "True" /\ is_dir(contents) /\ NoNetwork(last.ops))

\* C4 amended: contents absent and a file at the local archive path: resolution
\* extracts it and does nothing else (no probe, no fetch, no origin download,
\* also with an adress and download granted); it returns success with the
\* archive's tree at the contents path when the file is an extractable
\* archive, and otherwise the extraction error is raised with no tree written.
C4_LocalArchiveOnly ==
    (Tried /\ ~exists(last.pre.c) /\ is_file(last.pre.a))
        => /\ last.ops = <<"extract">>
           /\ archive = last.pre.a /\ remote = last.pre.r
           /\ (last.pre.a.data # Corrupt)
                  => (last.ret = "True" /\ contents = Dir(last.pre.a.data))
           /\ (last.pre.a.data = Corrupt)
                  => (last.ret = "ExtractError" /\ contents = Absent)

\* A local archive extracted although a remote file was there to download.
C4_Witness ==
    /\ Tried /\ ~exists(last.pre.c) /\ is_file(last.pre.a)
    /\ last.adr /\ last.dl /\ is_file(last.pre.r)
    /\ last.pre.r.data # last.pre.a.data
    /\ last.ret = "True" /\ contents = Dir(last.pre.a.data)

\* ---------------------------------------------------------------------- C5
\* C5 as stated: nothing local, the adress is a file, download granted:
\* resolution fetches, extracts and returns success; at return the local
\* archive file and the contents directory exist and the remote is unchanged.
C5_Original ==
    (Tried /\ ~exists(last.pre.c) /\ ~exists(last.pre.a)
           /\ last.adr /\ is_file(last.pre.r) /\ last.dl)
        => (last.ret = "True" /\ is_file(archive) /\ is_dir(contents)
            /\ remote = last.pre.r)

\* C5 amended: nothing local, the adress is a file, download granted:
\* resolution fetches the file to the local archive path and extracts it, the
\* remote unchanged; when the file is an extractable archive it returns
\* success with both the local archive and the tree present, otherwise the
\* extraction error is raised with the fetched file left at the local archive
\* path and no tree.
C5_FetchAndExtract ==
    (Tried /\ ~exists(last.pre.c) /\ ~exists(last.pre.a)
           /\ last.adr /\ is_file(last.pre.r) /\ last.dl)
        => /\ last.ops = <<"fs.exists", "fs.isfile", "mkdir", "get_file", "extract">>
           /\ archive = File(last.pre.r.data) /\ remote = last.pre.r
           /\ (last.pre.r.data # Corrupt)
                  => (last.ret = "True" /\ contents = Dir(last.pre.r.data))
           /\ (last.pre.r.data = Corrupt)
                  => (last.ret = "ExtractError" /\ contents = Absent)

\* A remote archive fetched and extracted.
C5_Witness ==
    /\ Tried /\ ~exists(last.pre.c) /\ ~exists(last.pre.a)
    /\ last.adr /\ is_file(last.pre.r) /\ last.dl
    /\ last.ret = "True" /\ is_file(archive) /\ is_dir(contents)

\* ---------------------------------------------------------------------- C6
\* C6: nothing local and an adress given: when nothing is at the adress, or a
\* file is but download is not granted, resolution returns False and raises
\* nothing; so after a download=true acquisition and the removal of both local
\* copies, a download=false call misses with the remote file still there.
C6_MissIsNotAnError ==
    /\ (Tried /\ ~exists(last.pre.c) /\ ~exists(last.pre.a) /\ last.adr
              /\ (~exists(last.pre.r) \/ (is_file(last.pre.r) /\ ~last.dl)))
           => (last.ret = "False" /\ Unchanged)
    /\ (Tried /\ last.scen4 /\ last.adr /\ ~last.dl)
           => (last.ret = "False" /\ is_file(remote))

\* The second half of scenario 4.
C6_Witness ==
    /\ Tried /\ last.scen4 /\ last.adr /\ ~last.dl
    /\ last.ret = "False" /\ is_file(remote) /\ remote.data # Corrupt

\* ---------------------------------------------------------------------- C7
\* C7 as stated: nothing local, no obtainable remote archive, no origin
\* reference: resolution returns False rather than raising, for every value
\* of the download flag, also when no adress is given.
C7_Original ==
    (Tried /\ ~exists(last.pre.c) /\ ~exists(last.pre.a) /\ ~last.gid
           /\ (last.adr => (~exists(last.pre.r) \/ (is_file(last.pre.r) /\ ~last.dl))))
        => last.ret = "False"

\* C7 amended: in that situation resolution returns False when an adress is
\* given, and when none is given and download is off; with no adress, download
\* on and no gdrive_id it raises RuntimeError.  Nothing is written either way.
C7_TotalMiss ==
    (Tried /\ ~exists(last.pre.c) /\ ~exists(last.pre.a) /\ ~last.gid
           /\ (last.adr => (~exists(last.pre.r) \/ (is_file(last.pre.r) /\ ~last.dl))))
        => /\ Unchanged
           /\ (last.adr \/ ~last.dl) => last.ret = "False"
           /\ (~last.adr /\ last.dl) => (last.ret = "RuntimeError" /\ last.ops = <<>>)

\* A total miss with no adress at all.
C7_Witness ==
    /\ Tried /\ ~exists(last.pre.c) /\ ~exists(last.pre.a) /\ ~last.gid
    /\ ~last.adr /\ ~last.dl /\ last.ret = "False"

\* ---------------------------------------------------------------------- C8
\* C8: if the contents path is a plain file, or the local archive path is a
\* directory, resolution raises before any extraction, probe or fetch, and the
\* local paths and the remote are as they were.
C8_WrongTypeFailsFast ==
    (Tried /\ (is_file(last.pre.c) \/ is_dir(last.pre.a)))
        => (last.ret = "RuntimeError" /\ last.ops = <<>> /\ Unchanged)

\* A directory at the archive path, with a remote file ready to download.
C8_Witness ==
    /\ Tried /\ ~exists(last.pre.c) /\ is_dir(last.pre.a)
    /\ last.adr /\ last.dl /\ is_file(last.pre.r)
    /\ last.ret = "RuntimeError"

\* ---------------------------------------------------------------------- C9
\* C9: nothing local, an adress given, and a directory at the adress:
\* resolution raises whether or not download is granted, and fetches and
\* extracts nothing.
C9_RemoteDirectoryFailsFast ==
    (Tried /\ ~exists(last.pre.c) /\ ~exists(last.pre.a)
           /\ last.adr /\ is_dir(last.pre.r))
        => /\ last.ret = "RuntimeError"
           /\ ~Has(last.ops, "get_file") /\ ~Has(last.ops, "extract")
           /\ Unchanged

\* The remote step reached with download granted and a directory found.
C9_Witness ==
    /\ Tried /\ ~exists(last.pre.c) /\ ~exists(last.pre.a)
    /\ last.adr /\ is_dir(last.pre.r) /\ last.dl
    /\ last.ret = "RuntimeError" /\ Has(last.ops, "fs.isfile")

\* --------------------------------------------------------------------- C10
\* C10: when nothing is local and nothing is at the adress (the first attempt
\* misses) and origin download is granted, get_contents fetches the origin
\* once and re-attempts acquisition once; it returns only with the tree
\* present and raises otherwise.
C10_OriginFallbackOnce ==
    (last.op = "get_contents" /\ last.dl
         /\ ~exists(last.pre.c) /\ ~exists(last.pre.r))
        => /\ last.fetches = 1 /\ last.attempts = 2
           /\ (last.ret = "None") => is_dir(contents)
           /\ (last.ret # "None") => Raised(last.ret)

C12_GenerateThenPublish ==
    (emptyStart /\ Len(built) = 1)
        => /\ built[1].ret = "generated"
           /\ \E i, j, k \in 1..Len(built[1].ops) :
                  /\ i < j /\ j < k
                  /\ built[1].ops[i] = "preprocess"
                  /\ built[1].ops[j] = "make_archive"
                  /\ built[1].ops[k] = "publish"
           /\ is_dir(contents) /\ is_file(archive) /\ is_file(remote)

C16_StableIndexing ==
    \A i \in 1..Len(built) :
        LET subs == built[i].p.subtypes
            selected(id) == \E k \in 1..Len(subs) : subs[k] = id.mode
        IN  /\ built[i].ids.set
            /\ built[i].ids.seq = SelectSeq(get_identities, selected)
            /\ \A j \in 1..Len(built) :
                   ({subs[k] : k \in 1..Len(subs)}
                        = {built[j].p.subtypes[k] :
                              k \in 1..Len(built[j].p.subtypes)})
                       => (built[j].ids.set
                           /\ built[j].ids.seq = built[i].ids.seq)

\* --------------------------------------------------------------------- C17
\* C17: each of the raw, waveform and spectrogram path functions maps
\* distinct identities of the catalog to distinct paths, and the waveform and
\* spectrogram paths of any two (identity, artifact kind) pairs are distinct.
C17_PathInjectivity ==
    (probe.op = "paths")
        => /\ probe.raw1.ret = "ok" /\ probe.raw2.ret = "ok"
           /\ probe.wave1.ret = "ok" /\ probe.wave2.ret = "ok"
           /\ probe.spec1.ret = "ok" /\ probe.spec2.ret = "ok"
           /\ (probe.id1 # probe.id2)
                  => /\ probe.raw1 # probe.raw2
                     /\ probe.wave1 # probe.wave2
                     /\ probe.spec1 # probe.spec2
           /\ probe.wave1 # probe.spec1 /\ probe.wave1 # probe.spec2
           /\ probe.wave2 # probe.spec1 /\ probe.wave2 # probe.spec2

\* --------------------------------------------------------------------- C18
\* C18: the raw item path, the waveform path and the spectrogram path all
\* render the serial number zero-padded to the width the table gives for the
\* identity's subtype.
C18_ZeroPadded ==
    (probe.op = "paths")
        => LET padded == zfill(str(probe.id1.serial_num),
                               name_zpad[mode_index(probe.id1.mode)])
           IN  /\ probe.raw1.ret = "ok" /\ probe.raw1.num = padded
               /\ probe.wave1.ret = "ok" /\ probe.wave1.num = padded
               /\ probe.spec1.ret = "ok" /\ probe.spec1.num = padded

\* --------------------------------------------------------------------- C19
\* C19: get(n) returns the datum of the n-th identity for every n with
\* 0 <= n < length(), and fails with an index-out-of-range error for every
\* other integer n, negative ones and n = length() included; the identity
\* list is left as it was.
C19_ViewIndexing ==
    (probe.op = "getitem")
        => /\ (0 <= probe.n /\ probe.n < Len(probe.ids))
                  => (probe.out.ret = "datum"
                      /\ probe.out.id = probe.ids[probe.n + 1])
           /\ (probe.n < 0 \/ probe.n >= Len(probe.ids))
                  => probe.out.ret = "IndexError"
           /\ probe.ids_after = probe.ids

\* --------------------------------------------------------------------- C20
\* C20: if preprocessing fails on an item after an earlier item was written,
\* the construction aborts with the contents tree present but incomplete and
\* nothing packaged or published; a later construction with the same
\* parameters resolves at step 1, reports success and regenerates nothing.
C20_PartialTreeHazard ==
    (emptyStart /\ Len(built) = 2 /\ built[1].fails
       /\ built[1].p = built[2].p)
        => /\ built[1].ret = "PreprocessError"
           /\ ~Has(built[1].ops, "make_archive") /\ ~Has(built[1].ops, "publish")
           /\ built[2].ret = "hit" /\ built[2].ops = <<>>
           /\ contents = Dir(Partial) /\ ~exists(archive) /\ ~exists(remote)

\* --------------------------------------------------------------------- C22
\* C22: a call of try_to_acquire_archive_contents that returns False or
\* raises one of its validation errors leaves the contents path, the local
\* archive path and the remote archive as they were; and no call, whatever
\* its outcome, changes the remote archive.
C22_ResolutionFrame ==
    /\ (Tried /\ last.ret \in {"False", "RuntimeError"}) => Unchanged
    /\ Tried => remote = last.pre.r

\* A miss with an archive file at the adress and download off: nothing moved.
C22_Witness ==
    /\ Tried /\ last.ret = "False" /\ last.adr /\ ~last.dl
    /\ is_file(last.pre.r) /\ ~exists(last.pre.c) /\ ~exists(last.pre.a)
    /\ Unchanged

C21_UncoordinatedRace ==
    (emptyStart /\ \A i \in Procs : race.stage[i] \notin RunningStages)
        => /\ \E i \in Procs : race.missed[i]
           /\ race.writer \in Procs
           /\ remote = File(TreeOf(race.p))
           /\ contents = Dir(TreeOf(race.p))
====
